---- MODULE Spec2Model ----
(***************************************************************************)
(* A model of the three pages of the portfolio client:                     *)
(*   - Photography.tsx : gallery with fallback collection and lightbox     *)
(*   - Magazine.tsx    : essay list with fallback and read-time estimate   *)
(*   - AdminPapers.tsx : CRUD panel for papers (dialogs, mutations, list)  *)
(* Each page is a React component; its state is the component's useState   *)
(* cells, the data of its queries and the mutations in flight.  Handlers   *)
(* and network callbacks interleave on one thread, one at a time.          *)
(***************************************************************************)
EXTENDS Integers, Sequences, FiniteSets, TLC

(***************************************************************************)
(* JavaScript values.  A nullable number, object or array is None or       *)
(* Some(v); a nullable string is the string or one of the two tokens.      *)
(***************************************************************************)
Null == "null"
Undefined == "undefined"
None == <<>>
Some(v) == <<v>>
Val(o) == o[1]

\* JavaScript truthiness of a nullable string: null, undefined and "" are falsy.
Truthy(s) == s \notin {Null, Undefined, ""}

\* s || d for a nullable string.
OrElse(s, d) == IF Truthy(s) THEN s ELSE d

\* The % operator of JavaScript: the result takes the sign of the dividend.
\* A zero divisor gives NaN, which indexes nothing (see At).
JsRem(a, n) == IF a >= 0 THEN a % n ELSE 0 - ((0 - a) % n)

\* arr[i] with a 0-based index: undefined (None) outside the array.
At(arr, i) == IF i >= 0 /\ i < Len(arr) THEN Some(arr[i + 1]) ELSE None

\* arr.findIndex(p => p.id === id): the first 0-based index, -1 when absent.
FindIndex(arr, id) ==
  IF \E k \in 1..Len(arr) : arr[k].id = id
  THEN (CHOOSE k \in 1..Len(arr) :
          /\ arr[k].id = id
          /\ \A j \in 1..(k - 1) : arr[j].id # id) - 1
  ELSE 0 - 1

\* The sequences without repetition over S of length at most n.
RECURSIVE Arrangements(_, _)
Arrangements(S, n) ==
  IF n = 0 THEN {<<>>}
  ELSE LET shorter == Arrangements(S, n - 1)
           longer == {Append(s, x) : s \in shorter, x \in S}
       IN shorter \cup
            {s \in longer : \A i, j \in 1..Len(s) : i < j => s[i] # s[j]}

(***************************************************************************)
(* Bounds of the model.                                                    *)
(***************************************************************************)
\* Identifiers the store has assigned to photos: 1..MaxPhotoId.
MaxPhotoId == 3

\* Identifiers the store has assigned to essays: 1..MaxEssayId.
MaxEssayId == 3

\* The month new Date() falls in while the page runs.
CurrentMonth == 11

\* Identifiers the store assigns to papers: 1..MaxPaperId.
MaxPaperId == 1

\* Mutations in flight at a time.
MaxInFlight == 1

\* The year new Date().getFullYear() gives while the page runs.
CurrentYear == 2026

\* Whitespace characters before the first word of a text and after its last.
MaxPad == 1

\* Whitespace characters between two words of a text.
MaxGap == 2

VARIABLES
  \* Photography.tsx
  selectedPhoto,     \* useState<Photo | null>
  dbPhotos,          \* data of trpc.photos.list.useQuery: None while absent
  photosIsLoading,   \* isLoading of that query
  photos,            \* the useMemo collection the page renders
  overflow,          \* document.body.style.overflow
  run,               \* history: the current streak of same-direction navigations
  trip,              \* history: the last two navigations, for round trips
  lastPhoto,         \* history: the handler of Photography that ran last
  \* Magazine.tsx
  selectedCategory,  \* useState("All")
  dbEssays,          \* data of trpc.essays.list.useQuery: None while absent
  essaysIsLoading,   \* isLoading of that query
  essays,            \* the useMemo collection the page renders
  magToasts,         \* the notifications the last handler of Magazine raised
  body,              \* the text estimateReadTime is called with
  label,             \* what the call returned: Null before it
  \* AdminPapers.tsx
  isDialogOpen,       \* useState(false)
  isDeleteDialogOpen, \* useState(false)
  editingId,          \* useState<number | null>(null)
  deletingId,         \* useState<number | null>(null)
  formData,           \* useState<PaperFormData>(defaultFormData)
  papers,             \* data of trpc.papers.listAll.useQuery: None while absent
  papersIsLoading,    \* isLoading of that query
  stale,              \* the query holds no data or was invalidated since
  fetch,              \* the fetch of the query that is on its way, if any
  mutations,          \* the mutations in flight, oldest first
  store,              \* the papers of the remote store
  nextId,             \* the identifier the store assigns next
  created,            \* history: the papers this client created
  toasts,             \* the notifications the last step raised
  calls,              \* the remote calls the last step issued
  inFlightCap         \* the mutations the model lets be in flight at a time

photoVars == <<selectedPhoto, dbPhotos, photosIsLoading, photos, overflow,
               run, trip, lastPhoto>>

magVars == <<selectedCategory, dbEssays, essaysIsLoading, essays, magToasts>>

adminVars == <<isDialogOpen, isDeleteDialogOpen, editingId, deletingId,
               formData, papers, papersIsLoading, stale, fetch, mutations,
               store, nextId, created, toasts, calls, inFlightCap>>

readVars == <<body, label>>

vars == <<photoVars, magVars, adminVars, readVars>>

(***************************************************************************)
(* Photography.tsx                                                         *)
(***************************************************************************)
staticPhotos == <<
  [id |-> 1, src |-> "/images/DSCF3114.JPG", title |-> "Winter Solitude",
   location |-> "Isle of Skye, Scotland", year |-> "2024",
   description |-> "Snow-covered peaks under a pale winter sky",
   camera |-> Undefined, lens |-> Undefined, settings |-> Undefined],
  [id |-> 2, src |-> "/images/image7.jpg", title |-> "Edge of the World",
   location |-> "Seven Sisters, England", year |-> "2024",
   description |-> "Where chalk cliffs meet the sea",
   camera |-> Undefined, lens |-> Undefined, settings |-> Undefined],
  [id |-> 3, src |-> "/images/image1.jpg", title |-> "Turquoise Waters",
   location |-> "Etretat, France", year |-> "2024",
   description |-> "A lone kayaker navigates the crystal waters",
   camera |-> Undefined, lens |-> Undefined, settings |-> Undefined],
  [id |-> 4, src |-> "/images/image5.jpg", title |-> "Threshold",
   location |-> "York, England", year |-> "2024",
   description |-> "An elderly man pauses at the doorway",
   camera |-> Undefined, lens |-> Undefined, settings |-> Undefined],
  [id |-> 5, src |-> "/images/image2.jpg", title |-> "Florentine Light",
   location |-> "Florence, Italy", year |-> "2024",
   description |-> "The Duomo's intricate facade glows in the golden hour",
   camera |-> Undefined, lens |-> Undefined, settings |-> Undefined],
  [id |-> 6, src |-> "/images/image3.jpg", title |-> "Roman Passage",
   location |-> "Rome, Italy", year |-> "2024",
   description |-> "The Pantheon stands eternal",
   camera |-> Undefined, lens |-> Undefined, settings |-> Undefined] >>

\* A row of the photos table as photos.list returns it.  Rows with an odd
\* identifier leave their optional columns null, the others fill them.
DbPhotoRow(i) ==
  IF i % 2 = 1
  THEN [id |-> i, imageUrl |-> "https://cdn/photo-" \o ToString(i),
        title |-> "Photo " \o ToString(i), location |-> Null,
        publishedAt |-> None, description |-> Null,
        camera |-> Null, lens |-> Null, settings |-> Null]
  ELSE [id |-> i, imageUrl |-> "https://cdn/photo-" \o ToString(i),
        title |-> "Photo " \o ToString(i), location |-> "Lisbon",
        publishedAt |-> Some(2023), description |-> "Harbour at dusk",
        camera |-> "X-T5", lens |-> "23mm", settings |-> "f/8"]

\* The results photos.list can return: the rows of distinct identifiers in
\* any order (identifiers are unique within a collection).
DbPhotoLists ==
  {[k \in 1..Len(s) |-> DbPhotoRow(s[k])] :
     s \in Arrangements(1..MaxPhotoId, MaxPhotoId)}

\* The callback of dbPhotos.map (lines 88-98).
MapPhoto(p) ==
  [id |-> p.id,
   src |-> p.imageUrl,
   title |-> p.title,
   location |-> OrElse(p.location, ""),
   year |-> IF p.publishedAt # None THEN ToString(Val(p.publishedAt))
            ELSE ToString(CurrentYear),
   description |-> OrElse(p.description, ""),
   camera |-> OrElse(p.camera, Undefined),
   lens |-> OrElse(p.lens, Undefined),
   settings |-> OrElse(p.settings, Undefined)]

\* A memo that appends the built-in photos to the remote ones.
photosMemoMerged(db) ==
  IF db # None /\ Len(Val(db)) > 0
  THEN [k \in 1..Len(Val(db)) |-> MapPhoto(Val(db)[k])] \o staticPhotos
  ELSE staticPhotos

\* A memo without the fallback: an absent or empty result exposes nothing.
photosMemoNoFallback(db) ==
  IF db # None /\ Len(Val(db)) > 0
  THEN [k \in 1..Len(Val(db)) |-> MapPhoto(Val(db)[k])]
  ELSE <<>>

\* The body of the useMemo (lines 86-101) for query data db.
photosMemo(db) ==
  IF db # None /\ Len(Val(db)) > 0
  THEN [k \in 1..Len(Val(db)) |-> MapPhoto(Val(db)[k])]
  ELSE staticPhotos

NoRun == [start |-> None, dir |-> "none", count |-> 0]
NoTrip == [start |-> None, path |-> <<>>]

InitPhotography ==
  /\ selectedPhoto = None
  /\ dbPhotos = None
  /\ photosIsLoading = TRUE
  /\ photos = photosMemo(None)
  /\ overflow = ""
  /\ run = NoRun
  /\ trip = NoTrip
  /\ lastPhoto = "mount"

\* photos.list answers (the first fetch or a refetch): the component renders
\* again and the memo is recomputed from the new data.
PhotosQuerySuccess ==
  \E rows \in DbPhotoLists :
    /\ dbPhotos' = Some(rows)
    /\ photosIsLoading' = FALSE
    /\ photos' = photosMemo(Some(rows))
    /\ run' = NoRun
    /\ trip' = NoTrip
    /\ lastPhoto' = "querySuccess"
    /\ UNCHANGED <<selectedPhoto, overflow>>
    /\ UNCHANGED <<magVars, adminVars, readVars>>

\* photos.list fails: the data stays what it was, nothing else happens.
PhotosQueryError ==
  /\ photosIsLoading' = FALSE
  /\ photos' = photosMemo(dbPhotos)
  /\ lastPhoto' = "queryError"
  /\ UNCHANGED <<selectedPhoto, dbPhotos, overflow, run, trip>>
  /\ UNCHANGED <<magVars, adminVars, readVars>>

\* openLightbox (lines 103-106), from a click on a grid cell: the grid is
\* rendered once the query has settled and is covered by the lightbox.
openLightbox(photo) ==
  /\ selectedPhoto' = Some(photo)
  /\ overflow' = "hidden"

OpenLightbox ==
  /\ ~photosIsLoading
  /\ selectedPhoto = None
  /\ \E k \in 1..Len(photos) : openLightbox(photos[k])
  /\ run' = NoRun
  /\ trip' = NoTrip
  /\ lastPhoto' = "openLightbox"
  /\ UNCHANGED <<dbPhotos, photosIsLoading, photos>>
  /\ UNCHANGED <<magVars, adminVars, readVars>>

\* A close that leaves the scroll as it is.
closeLightboxKeepsScroll ==
  /\ selectedPhoto' = None
  /\ UNCHANGED overflow

\* closeLightbox (lines 108-111), from the close button or the backdrop.
closeLightbox ==
  /\ selectedPhoto' = None
  /\ overflow' = "auto"

CloseLightbox ==
  /\ selectedPhoto # None
  /\ closeLightbox
  /\ run' = NoRun
  /\ trip' = NoTrip
  /\ lastPhoto' = "closeLightbox"
  /\ UNCHANGED <<dbPhotos, photosIsLoading, photos>>
  /\ UNCHANGED <<magVars, adminVars, readVars>>

\* A navigation that stops at the ends instead of wrapping around.
newIndexClamped(list, sel, direction) ==
  LET currentIndex == FindIndex(list, sel.id)
  IN IF direction = "next"
     THEN (IF currentIndex + 1 < Len(list) THEN currentIndex + 1 ELSE currentIndex)
     ELSE (IF currentIndex > 0 THEN currentIndex - 1 ELSE 0)

\* A navigation whose "prev" forgets to add the length before the remainder.
newIndexNoOffset(list, sel, direction) ==
  LET currentIndex == FindIndex(list, sel.id)
  IN IF direction = "next"
     THEN JsRem(currentIndex + 1, Len(list))
     ELSE JsRem(currentIndex - 1, Len(list))

\* A navigation that steps forward whatever the direction.
newIndexForward(list, sel, direction) ==
  JsRem(FindIndex(list, sel.id) + 1, Len(list))

\* A navigation whose "next" adds the length instead of one.
newIndexNextStays(list, sel, direction) ==
  LET currentIndex == FindIndex(list, sel.id)
  IN IF direction = "next"
     THEN JsRem(currentIndex + Len(list), Len(list))
     ELSE JsRem(currentIndex - 1 + Len(list), Len(list))

\* The index navigatePhoto moves to (lines 115-119).
newIndex(list, sel, direction) ==
  LET currentIndex == FindIndex(list, sel.id)
  IN IF direction = "next"
     THEN JsRem(currentIndex + 1, Len(list))
     ELSE JsRem(currentIndex - 1 + Len(list), Len(list))

\* The selection navigatePhoto leaves (lines 113-121).
navigatePhoto(list, sel, direction) ==
  IF sel = None THEN sel
  ELSE At(list, newIndex(list, Val(sel), direction))

\* The streak of same-direction navigations after one more in direction d.
RunAfter(d) ==
  IF run.dir = d /\ run.count < Len(photos)
  THEN [run EXCEPT !.count = run.count + 1]
  ELSE [start |-> selectedPhoto, dir |-> d, count |-> 1]

\* The last two navigations after one more in direction d.
TripAfter(d) ==
  IF Len(trip.path) = 1 /\ trip.path[1] # d
  THEN [trip EXCEPT !.path = Append(trip.path, d)]
  ELSE [start |-> selectedPhoto, path |-> <<d>>]

NavigatePhoto ==
  /\ ~photosIsLoading
  /\ \E direction \in {"prev", "next"} :
       /\ selectedPhoto' = navigatePhoto(photos, selectedPhoto, direction)
       /\ run' = IF selectedPhoto = None THEN NoRun ELSE RunAfter(direction)
       /\ trip' = IF selectedPhoto = None THEN NoTrip ELSE TripAfter(direction)
       /\ lastPhoto' = direction
  /\ UNCHANGED <<dbPhotos, photosIsLoading, photos, overflow>>
  /\ UNCHANGED <<magVars, adminVars, readVars>>

NextPhotography ==
  \/ PhotosQuerySuccess
  \/ PhotosQueryError
  \/ OpenLightbox
  \/ CloseLightbox
  \/ NavigatePhoto


(***************************************************************************)
(* Magazine.tsx                                                            *)
(***************************************************************************)
staticEssays == <<
  [id |-> 1, title |-> "The Art of Seeing",
   subtitle |-> "On Photography and Presence",
   excerpt |-> "In an age of infinite images, what does it mean to truly see?",
   date |-> "December 2024", readTime |-> "12 min read",
   category |-> "Photography", coverImage |-> "/images/image7.jpg"],
  [id |-> 2, title |-> "Wandering Through Time",
   subtitle |-> "Reflections on European Architecture",
   excerpt |-> "Standing before the Pantheon",
   date |-> "November 2024", readTime |-> "15 min read",
   category |-> "Travel", coverImage |-> "/images/image3.jpg"],
  [id |-> 3, title |-> "The Silence of Snow",
   subtitle |-> "A Winter Journey to the Scottish Highlands",
   excerpt |-> "There is a particular quality to highland silence in winter",
   date |-> "October 2024", readTime |-> "10 min read",
   category |-> "Travel", coverImage |-> "/images/DSCF3114.JPG"],
  [id |-> 4, title |-> "Portraits of Strangers",
   subtitle |-> "The Ethics and Aesthetics of Street Photography",
   excerpt |-> "Every photograph of a stranger is an act of both intimacy and intrusion.",
   date |-> "September 2024", readTime |-> "18 min read",
   category |-> "Photography", coverImage |-> "/images/image5.jpg"] >>

\* A text is a sequence of one-character strings.
IsSpace(c) == c \in {" ", "\t", "\n"}

\* content.split(/\s+/): the pieces between the maximal runs of whitespace,
\* with an empty piece before a leading run and after a trailing one, and the
\* single empty piece for the empty text.  A text of two characters or more
\* is split half by half: the last piece of the first half and the first
\* piece of the second are one piece, which is no piece at all when a run of
\* whitespace spans the cut.
RECURSIVE SplitWhitespace(_)
SplitWhitespace(s) ==
  IF s = <<>> THEN << <<>> >>
  ELSE IF Len(s) = 1 THEN (IF IsSpace(s[1]) THEN << <<>>, <<>> >> ELSE <<s>>)
  ELSE LET half == Len(s) \div 2
           left == SplitWhitespace(SubSeq(s, 1, half))
           right == SplitWhitespace(SubSeq(s, half + 1, Len(s)))
           front == SubSeq(left, 1, Len(left) - 1)
       IN IF IsSpace(s[half]) /\ IsSpace(s[half + 1])
          THEN front \o Tail(right)
          ELSE front \o <<left[Len(left)] \o right[1]>> \o Tail(right)

\* A division that rounds down.
FloorDiv(a, b) == a \div b

\* Math.ceil(a / b) for a >= 0 and b > 0.
Ceil(a, b) == (a + b - 1) \div b

wordsPerMinute == 200

\* estimateReadTime (lines 77-82).
estimateReadTime(content) ==
  LET wordCount == Len(SplitWhitespace(content))
      minutes == Ceil(wordCount, wordsPerMinute)
  IN ToString(minutes) \o " min read"

\* The texts estimateReadTime is tried on: WordCounts words of one letter,
\* up to MaxGap whitespace characters between two words and up to MaxPad
\* before the first and after the last.
WordCounts == {0, 1, 2, 199, 200, 201, 399, 400, 401}

Spaces(n) == [k \in 1..n |-> IF k % 2 = 1 THEN " " ELSE "\n"]

Words(n, gap) ==
  IF n = 0 THEN <<>>
  ELSE [k \in 1..(n + (n - 1) * gap) |->
          IF (k - 1) % (gap + 1) = 0 THEN "w"
          ELSE IF ((k - 1) % (gap + 1)) % 2 = 1 THEN " " ELSE "\n"]

Bodies ==
  {Spaces(lead) \o Words(n, gap) \o Spaces(trail) :
     lead \in 0..MaxPad, trail \in 0..MaxPad, gap \in 1..MaxGap,
     n \in WordCounts}

\* No call of estimateReadTime is under way.
InitReadTimeIdle == body = <<>> /\ label = Null

\* A text is about to be given to estimateReadTime.
InitReadTime == body \in Bodies /\ label = Null

\* The call estimateReadTime(body).
EstimateReadTime ==
  /\ label = Null
  /\ label' = estimateReadTime(body)
  /\ UNCHANGED body
  /\ UNCHANGED <<photoVars, magVars, adminVars>>

NextReadTime ==
  \/ EstimateReadTime

MonthName(m) ==
  <<"January", "February", "March", "April", "May", "June", "July", "August",
    "September", "October", "November", "December">>[m]

\* toLocaleDateString('en-US', { month: 'long', year: 'numeric' }).
MonthYear(d) == MonthName(d.month) \o " " \o ToString(d.year)

\* A row of the essays table as essays.list returns it.  Rows with an odd
\* identifier leave their optional columns null, the others fill them.
DbEssayRow(i) ==
  IF i % 2 = 1
  THEN [id |-> i, title |-> "Essay " \o ToString(i), subtitle |-> Null,
        excerpt |-> Null, publishedAt |-> None, content |-> None,
        category |-> Null, coverImageUrl |-> Null]
  ELSE [id |-> i, title |-> "Essay " \o ToString(i), subtitle |-> "Notes",
        excerpt |-> "An excerpt", publishedAt |-> Some([month |-> 5, year |-> 2025]),
        content |-> Some(<<"o", "n", "e", " ", "t", "w", "o">>),
        category |-> "Travel", coverImageUrl |-> "https://cdn/cover-" \o ToString(i)]

DbEssayLists ==
  {[k \in 1..Len(s) |-> DbEssayRow(s[k])] :
     s \in Arrangements(1..MaxEssayId, MaxEssayId)}

\* The callback of dbEssays.map (lines 93-104).
MapEssay(e) ==
  [id |-> e.id,
   title |-> e.title,
   subtitle |-> OrElse(e.subtitle, ""),
   excerpt |-> OrElse(e.excerpt, ""),
   date |-> IF e.publishedAt # None THEN MonthYear(Val(e.publishedAt))
            ELSE MonthYear([month |-> CurrentMonth, year |-> CurrentYear]),
   readTime |-> IF e.content # None /\ Val(e.content) # <<>>
                THEN estimateReadTime(Val(e.content)) ELSE "5 min read",
   category |-> OrElse(e.category, "Uncategorized"),
   coverImage |-> OrElse(e.coverImageUrl, "/images/image7.jpg")]

\* The body of the useMemo (lines 91-107) for query data db.
essaysMemo(db) ==
  IF db # None /\ Len(Val(db)) > 0
  THEN [k \in 1..Len(Val(db)) |-> MapEssay(Val(db)[k])]
  ELSE staticEssays

\* The categories memo (lines 110-113), as a set: "All" and each category.
categories == {"All"} \cup {essays[k].category : k \in 1..Len(essays)}

InitMagazine ==
  /\ selectedCategory = "All"
  /\ dbEssays = None
  /\ essaysIsLoading = TRUE
  /\ essays = essaysMemo(None)
  /\ magToasts = <<>>

\* essays.list answers (the first fetch or a refetch).
EssaysQuerySuccess ==
  \E rows \in DbEssayLists :
    /\ dbEssays' = Some(rows)
    /\ essaysIsLoading' = FALSE
    /\ essays' = essaysMemo(Some(rows))
    /\ magToasts' = <<>>
    /\ UNCHANGED selectedCategory
    /\ UNCHANGED <<photoVars, adminVars, readVars>>

\* essays.list fails: the data stays what it was.
EssaysQueryError ==
  /\ essaysIsLoading' = FALSE
  /\ essays' = essaysMemo(dbEssays)
  /\ magToasts' = <<>>
  /\ UNCHANGED <<selectedCategory, dbEssays>>
  /\ UNCHANGED <<photoVars, adminVars, readVars>>

\* A click on a category button (setSelectedCategory).
SelectCategory ==
  /\ ~essaysIsLoading
  /\ \E category \in categories : selectedCategory' = category
  /\ magToasts' = <<>>
  /\ UNCHANGED <<dbEssays, essaysIsLoading, essays>>
  /\ UNCHANGED <<photoVars, adminVars, readVars>>

\* handleReadMore (lines 120-124), from a click on an essay card.
HandleReadMore ==
  /\ ~essaysIsLoading
  /\ \E k \in 1..Len(essays) :
       selectedCategory = "All" \/ essays[k].category = selectedCategory
  /\ magToasts' = <<[kind |-> "message", text |-> "Coming Soon"]>>
  /\ UNCHANGED <<selectedCategory, dbEssays, essaysIsLoading, essays>>
  /\ UNCHANGED <<photoVars, adminVars, readVars>>

NextMagazine ==
  \/ EssaysQuerySuccess
  \/ EssaysQueryError
  \/ SelectCategory
  \/ HandleReadMore

(***************************************************************************)
(* AdminPapers.tsx                                                         *)
(***************************************************************************)
\* s.trim() for a text.
RECURSIVE TrimStart(_)
TrimStart(s) == IF s # <<>> /\ IsSpace(Head(s)) THEN TrimStart(Tail(s)) ELSE s

RECURSIVE TrimEnd(_)
TrimEnd(s) ==
  IF s # <<>> /\ IsSpace(s[Len(s)]) THEN TrimEnd(SubSeq(s, 1, Len(s) - 1)) ELSE s

\* A trim that leaves the text as it is.
TrimNone(s) == s

Trim(s) == TrimEnd(TrimStart(s))

\* defaultFormData (lines 39-56).  title and authors are texts.
defaultFormData ==
  [title |-> <<>>, authors |-> <<>>, abstract |-> "", journal |-> "",
   year |-> CurrentYear, volume |-> "", issue |-> "", pages |-> "",
   doi |-> "", pdfUrl |-> "", pdfKey |-> "", category |-> "", tags |-> "",
   citations |-> 0, featured |-> FALSE, published |-> FALSE]

\* new Date(): the one timestamp of the model.
Now == "now"

\* What the user types into the title and authors inputs.
TitleInputs == {<<" ">>, <<"X">>}
AuthorsInputs == {<<" ">>, <<"A">>}

\* The messages a failing remote operation carries.
ErrorMessages == {"timeout", "forbidden"}

\* A paper that was in the store before the page opened: published, with its
\* optional columns null.
SeedPaper ==
  [id |-> 1, title |-> <<"P">>, authors |-> <<"A">>, abstract |-> Null,
   journal |-> Null, year |-> None, volume |-> Null, issue |-> Null,
   pages |-> Null, doi |-> Null, pdfUrl |-> Null, pdfKey |-> Null,
   category |-> Null, tags |-> Null, citations |-> None, featured |-> FALSE,
   published |-> TRUE, publishedAt |-> Now]

\* n || d for a nullable number: null and 0 are falsy.
NumOrElse(n, d) == IF n # None /\ Val(n) # 0 THEN Val(n) ELSE d

\* The truthiness of a nullable identifier (if (editingId), if (deletingId)).
TruthyId(id) == id # None /\ Val(id) # 0

IdleFetch == [phase |-> "idle", data |-> None]
SentFetch == [phase |-> "sent", data |-> None]

\* The page as it mounts over a store whose identifiers start at first, with
\* at most n mutations in flight afterwards.
InitAdminFrom(first, n) ==
  /\ isDialogOpen = FALSE
  /\ isDeleteDialogOpen = FALSE
  /\ editingId = None
  /\ deletingId = None
  /\ formData = defaultFormData
  /\ papers = None
  /\ papersIsLoading = TRUE
  /\ stale = TRUE
  /\ fetch = SentFetch
  /\ mutations = <<>>
  /\ store \in {<<>>, <<[SeedPaper EXCEPT !.id = first]>>}
  /\ nextId = first + Len(store)
  /\ created = {}
  /\ toasts = <<>>
  /\ calls = <<>>
  /\ inFlightCap = n

\* The page as it mounts, with at most n mutations in flight afterwards.
InitAdminUpTo(n) == InitAdminFrom(SeedPaper.id, n)

InitAdmin == InitAdminUpTo(MaxInFlight)

\* What a handler leaves alone unless it says otherwise.
NoToast == toasts' = <<>>
NoCall == calls' = <<>>
ServerUnchanged == UNCHANGED <<store, nextId, created>>
QueryUnchanged == UNCHANGED <<papers, papersIsLoading, stale, fetch>>
DialogUnchanged == UNCHANGED <<isDialogOpen, editingId, formData>>
DeleteDialogUnchanged == UNCHANGED <<isDeleteDialogOpen, deletingId>>
OtherPagesUnchanged == UNCHANGED <<photoVars, magVars, readVars, inFlightCap>>

\* The list and the header are reachable when no modal dialog covers them.
NoDialogOpen == ~isDialogOpen /\ ~isDeleteDialogOpen

\* The papers the list renders (line 207).
ShownPapers == IF papersIsLoading \/ papers = None THEN <<>> ELSE Val(papers)

\* isPending of a useMutation hook: the state of the mutation it observes,
\* which is the one its latest mutate() started.
isPending(hook) ==
  \E i \in 1..Len(mutations) : mutations[i].hook = hook /\ mutations[i].observed

\* hook.mutate(input): the hook turns to the new mutation.
mutate(hook, input, origin) ==
  /\ mutations' =
       Append([i \in 1..Len(mutations) |->
                 IF mutations[i].hook = hook
                 THEN [mutations[i] EXCEPT !.observed = FALSE]
                 ELSE mutations[i]],
              [hook |-> hook, input |-> input, origin |-> origin,
               phase |-> "sent", result |-> None,
               observed |-> TRUE])
  /\ calls' = <<[op |-> hook, input |-> input]>>

\* utils.papers.listAll.invalidate(): the query is marked stale and, being
\* mounted, refetched; a fetch already on its way is dropped for the new one.
invalidate ==
  /\ stale' = TRUE
  /\ fetch' = SentFetch
  /\ UNCHANGED <<papers, papersIsLoading>>

\* openCreateDialog (lines 102-106).
openCreateDialog ==
  /\ editingId' = None
  /\ formData' = defaultFormData
  /\ isDialogOpen' = TRUE

OpenCreateDialog ==
  /\ NoDialogOpen
  /\ openCreateDialog
  /\ NoToast /\ NoCall
  /\ UNCHANGED mutations
  /\ DeleteDialogUnchanged /\ QueryUnchanged /\ ServerUnchanged
  /\ OtherPagesUnchanged

\* The draft openEditDialog makes of a paper (lines 110-127).
paperDraft(paper) ==
  [title |-> paper.title,
   authors |-> paper.authors,
   abstract |-> OrElse(paper.abstract, ""),
   journal |-> OrElse(paper.journal, ""),
   year |-> NumOrElse(paper.year, CurrentYear),
   volume |-> OrElse(paper.volume, ""),
   issue |-> OrElse(paper.issue, ""),
   pages |-> OrElse(paper.pages, ""),
   doi |-> OrElse(paper.doi, ""),
   pdfUrl |-> OrElse(paper.pdfUrl, ""),
   pdfKey |-> OrElse(paper.pdfKey, ""),
   category |-> OrElse(paper.category, ""),
   tags |-> OrElse(paper.tags, ""),
   citations |-> NumOrElse(paper.citations, 0),
   featured |-> (paper.featured \/ FALSE),
   published |-> (paper.published \/ FALSE)]

\* openEditDialog (lines 108-129).
openEditDialog(paper) ==
  /\ editingId' = Some(paper.id)
  /\ formData' = paperDraft(paper)
  /\ isDialogOpen' = TRUE

OpenEditDialog ==
  /\ NoDialogOpen
  /\ \E k \in 1..Len(ShownPapers) : openEditDialog(ShownPapers[k])
  /\ NoToast /\ NoCall
  /\ UNCHANGED mutations
  /\ DeleteDialogUnchanged /\ QueryUnchanged /\ ServerUnchanged
  /\ OtherPagesUnchanged

\* A close that keeps the draft and the identifier being edited.
closeDialogKeepsDraft ==
  /\ isDialogOpen' = FALSE
  /\ UNCHANGED <<editingId, formData>>

\* closeDialog (lines 131-135).
closeDialog ==
  /\ isDialogOpen' = FALSE
  /\ editingId' = None
  /\ formData' = defaultFormData

\* The cancel button of the form (line 502).
CloseDialog ==
  /\ isDialogOpen
  /\ closeDialog
  /\ NoToast /\ NoCall
  /\ UNCHANGED mutations
  /\ DeleteDialogUnchanged /\ QueryUnchanged /\ ServerUnchanged
  /\ OtherPagesUnchanged

\* The dialog's own request to close, on Escape or a click outside it:
\* onOpenChange={setIsDialogOpen} (line 325).
DialogOpenChange ==
  /\ isDialogOpen
  /\ isDialogOpen' = FALSE
  /\ UNCHANGED <<editingId, formData>>
  /\ NoToast /\ NoCall
  /\ UNCHANGED mutations
  /\ DeleteDialogUnchanged /\ QueryUnchanged /\ ServerUnchanged
  /\ OtherPagesUnchanged

\* The onChange of the title input (line 343).
ChangeTitle ==
  /\ isDialogOpen
  /\ \E v \in TitleInputs : formData' = [formData EXCEPT !.title = v]
  /\ UNCHANGED <<isDialogOpen, editingId>>
  /\ NoToast /\ NoCall
  /\ UNCHANGED mutations
  /\ DeleteDialogUnchanged /\ QueryUnchanged /\ ServerUnchanged
  /\ OtherPagesUnchanged

\* The onChange of the authors input (line 354).
ChangeAuthors ==
  /\ isDialogOpen
  /\ \E v \in AuthorsInputs : formData' = [formData EXCEPT !.authors = v]
  /\ UNCHANGED <<isDialogOpen, editingId>>
  /\ NoToast /\ NoCall
  /\ UNCHANGED mutations
  /\ DeleteDialogUnchanged /\ QueryUnchanged /\ ServerUnchanged
  /\ OtherPagesUnchanged

\* The onCheckedChange of the published switch (line 483).
ChangePublished ==
  /\ isDialogOpen
  /\ formData' = [formData EXCEPT !.published = ~formData.published]
  /\ UNCHANGED <<isDialogOpen, editingId>>
  /\ NoToast /\ NoCall
  /\ UNCHANGED mutations
  /\ DeleteDialogUnchanged /\ QueryUnchanged /\ ServerUnchanged
  /\ OtherPagesUnchanged

ErrorToast(text) == [kind |-> "error", text |-> text]
SuccessToast(text) == [kind |-> "success", text |-> text]

\* The two validation notifications of handleSubmit.
TitleMissing == ErrorToast("please enter a title")
AuthorsMissing == ErrorToast("please enter the authors")

\* submitData (lines 147-150).
submitData ==
  [publishedAt |-> IF formData.published THEN Now ELSE Undefined] @@ formData

\* handleSubmit (lines 137-160).
handleSubmit ==
  IF Trim(formData.title) = <<>>
  THEN /\ toasts' = <<TitleMissing>>
       /\ NoCall
       /\ UNCHANGED mutations
  ELSE IF Trim(formData.authors) = <<>>
  THEN /\ toasts' = <<AuthorsMissing>>
       /\ NoCall
       /\ UNCHANGED mutations
  ELSE /\ NoToast
       /\ IF TruthyId(editingId)
          THEN mutate("update", [id |-> Val(editingId)] @@ submitData, "dialog")
          ELSE mutate("create", submitData, "dialog")

\* A draft that passes the validation of handleSubmit.
ValidDraft(d) == Trim(d.title) # <<>> /\ Trim(d.authors) # <<>>

\* The save button (lines 505-510), disabled while a create or an update of
\* the two hooks is pending.
HandleSubmit ==
  /\ isDialogOpen
  /\ ~(isPending("create") \/ isPending("update"))
  /\ ValidDraft(formData) => Len(mutations) < inFlightCap
  /\ handleSubmit
  /\ DialogUnchanged
  /\ DeleteDialogUnchanged /\ QueryUnchanged /\ ServerUnchanged
  /\ OtherPagesUnchanged

\* A delete button that deletes at once, without waiting for the confirmation.
selectAndDelete(paper) ==
  /\ deletingId' = Some(paper.id)
  /\ isDeleteDialogOpen' = TRUE
  /\ mutate("delete", [id |-> paper.id], "row")

\* The delete button of a list row (lines 287-297).
selectForDelete(paper) ==
  /\ deletingId' = Some(paper.id)
  /\ isDeleteDialogOpen' = TRUE
  /\ NoCall
  /\ UNCHANGED mutations

SelectForDelete ==
  /\ NoDialogOpen
  /\ \E k \in 1..Len(ShownPapers) : selectForDelete(ShownPapers[k])
  /\ NoToast
  /\ DialogUnchanged /\ QueryUnchanged /\ ServerUnchanged
  /\ OtherPagesUnchanged

\* The cancel button of the confirmation (line 525) and the dialog's own
\* request to close (line 516): both are setIsDeleteDialogOpen(false).
CloseDeleteDialog ==
  /\ isDeleteDialogOpen
  /\ isDeleteDialogOpen' = FALSE
  /\ UNCHANGED deletingId
  /\ NoToast /\ NoCall
  /\ UNCHANGED mutations
  /\ DialogUnchanged /\ QueryUnchanged /\ ServerUnchanged
  /\ OtherPagesUnchanged

\* handleDelete (lines 162-166).
handleDelete ==
  IF TruthyId(deletingId)
  THEN mutate("delete", [id |-> Val(deletingId)], "confirm")
  ELSE NoCall /\ UNCHANGED mutations

\* The delete button of the confirmation (lines 528-534), disabled while the
\* delete hook is pending.
HandleDelete ==
  /\ isDeleteDialogOpen
  /\ ~isPending("delete")
  /\ TruthyId(deletingId) => Len(mutations) < inFlightCap
  /\ handleDelete
  /\ NoToast
  /\ DialogUnchanged /\ DeleteDialogUnchanged /\ QueryUnchanged
  /\ ServerUnchanged
  /\ OtherPagesUnchanged

\* togglePublish (lines 168-174).
togglePublish(paper) ==
  mutate("update",
         [id |-> paper.id,
          published |-> ~paper.published,
          publishedAt |-> IF ~paper.published THEN Now ELSE Undefined],
         "toggle")

\* The publish button of a list row (lines 268-279).
TogglePublish ==
  /\ NoDialogOpen
  /\ Len(mutations) < inFlightCap
  /\ \E k \in 1..Len(ShownPapers) : togglePublish(ShownPapers[k])
  /\ NoToast
  /\ DialogUnchanged /\ DeleteDialogUnchanged /\ QueryUnchanged
  /\ ServerUnchanged
  /\ OtherPagesUnchanged

(***************************************************************************)
(* The remote procedures behind trpc.papers and the store behind them.     *)
(***************************************************************************)
\* The request as the procedure receives it: a key whose value is undefined
\* gives no field (JSON has no undefined).  publishedAt is the one key the
\* page sets so.
Wire(input) ==
  IF "publishedAt" \in DOMAIN input /\ input.publishedAt = Undefined
  THEN [f \in DOMAIN input \ {"publishedAt"} |-> input[f]]
  ELSE input

PaperColumns == DOMAIN SeedPaper

\* The column value of a form value: year and citations are nullable numbers.
ToColumn(f, v) == IF f \in {"year", "citations"} THEN Some(v) ELSE v

\* create(fields) -> Item: the store assigns the identifier; a column the
\* request does not give is null.
NewPaper(id, w) ==
  [f \in PaperColumns |->
     IF f = "id" THEN id
     ELSE IF f \in DOMAIN w THEN ToColumn(f, w[f])
     ELSE IF f \in {"year", "citations"} THEN None
     ELSE Null]

\* update({id, ...partialFields}) -> Item: the fields given replace the
\* record's, the others stay.
PatchPaper(row, w) ==
  [f \in PaperColumns |->
     IF f # "id" /\ f \in DOMAIN w THEN ToColumn(f, w[f]) ELSE row[f]]

UpdateStore(w) ==
  [k \in 1..Len(store) |->
     IF store[k].id = w.id THEN PatchPaper(store[k], w) ELSE store[k]]

\* delete({id}) -> void.
DeleteFromStore(w) == SelectSeq(store, LAMBDA row : row.id # w.id)

\* The papers this client created, each with the title this client gave it
\* last, until this client deletes it; acked once onSuccess has run for the
\* create.
CreatedAfter(m, w) ==
  CASE m.hook = "create" ->
         created \cup {[id |-> nextId, title |-> w.title, acked |-> FALSE]}
    [] m.hook = "update" ->
         {IF c.id = w.id /\ "title" \in DOMAIN w
          THEN [c EXCEPT !.title = w.title] ELSE c : c \in created}
    [] m.hook = "delete" -> {c \in created : c.id # w.id}

\* The server carries out a request it has received.
ServerApply ==
  /\ \E i \in 1..Len(mutations) :
       LET m == mutations[i]
           w == Wire(m.input)
       IN /\ m.phase = "sent"
          /\ m.hook = "create" => nextId <= MaxPaperId
          /\ store' = CASE m.hook = "create" -> Append(store, NewPaper(nextId, w))
                        [] m.hook = "update" -> UpdateStore(w)
                        [] m.hook = "delete" -> DeleteFromStore(w)
          /\ nextId' = IF m.hook = "create" THEN nextId + 1 ELSE nextId
          /\ created' = CreatedAfter(m, w)
          /\ mutations' =
               [mutations EXCEPT ![i].phase = "ok",
                                 ![i].result = IF m.hook = "create"
                                               THEN Some(nextId) ELSE None]
  /\ NoToast /\ NoCall
  /\ DialogUnchanged /\ DeleteDialogUnchanged /\ QueryUnchanged
  /\ OtherPagesUnchanged

\* The mutations in flight without the i-th.
Without(i) ==
  [k \in 1..(Len(mutations) - 1) |-> IF k < i THEN mutations[k] ELSE mutations[k + 1]]

\* An onSuccess that does not invalidate the list query.
onSaveSuccessNoInvalidate(text) ==
  /\ QueryUnchanged
  /\ toasts' = <<SuccessToast(text)>>
  /\ closeDialog
  /\ DeleteDialogUnchanged

\* onSuccess of createMutation (lines 69-73) and of updateMutation (80-84).
onSaveSuccess(text) ==
  /\ invalidate
  /\ toasts' = <<SuccessToast(text)>>
  /\ closeDialog
  /\ DeleteDialogUnchanged

\* An onSuccess of the delete that keeps the pending-deletion identifier.
onDeleteSuccessKeepsId ==
  /\ invalidate
  /\ toasts' = <<SuccessToast("paper deleted")>>
  /\ isDeleteDialogOpen' = FALSE
  /\ UNCHANGED deletingId
  /\ DialogUnchanged

\* onSuccess of deleteMutation (lines 91-96).
onDeleteSuccess ==
  /\ invalidate
  /\ toasts' = <<SuccessToast("paper deleted")>>
  /\ isDeleteDialogOpen' = FALSE
  /\ deletingId' = None
  /\ DialogUnchanged

\* The answer of a request the server carried out reaches the page.
MutationSuccess ==
  /\ \E i \in 1..Len(mutations) :
       LET m == mutations[i]
       IN /\ m.phase = "ok"
          /\ CASE m.hook = "create" -> onSaveSuccess("paper created")
               [] m.hook = "update" -> onSaveSuccess("paper updated")
               [] m.hook = "delete" -> onDeleteSuccess
          /\ mutations' = Without(i)
          /\ created' = {IF m.hook = "create" /\ Some(c.id) = m.result
                         THEN [c EXCEPT !.acked = TRUE] ELSE c : c \in created}
  /\ NoCall
  /\ UNCHANGED <<store, nextId>>
  /\ OtherPagesUnchanged

\* The text each hook's onError puts before the error's message.
FailurePrefix(hook) ==
  CASE hook = "create" -> "create failed: "
    [] hook = "update" -> "update failed: "
    [] hook = "delete" -> "delete failed: "

\* An onError that drops the error's message.
onErrorWithoutMessage(hook, message) ==
  /\ toasts' = <<ErrorToast(FailurePrefix(hook))>>
  /\ DialogUnchanged /\ DeleteDialogUnchanged /\ QueryUnchanged

\* onError of the three hooks (lines 74-76, 85-87, 97-99).
onError(hook, message) ==
  /\ toasts' = <<ErrorToast(FailurePrefix(hook) \o message)>>
  /\ DialogUnchanged /\ DeleteDialogUnchanged /\ QueryUnchanged

\* A request fails (the network or the store) and the failure, with its
\* message, reaches the page: the store is not changed.
MutationError ==
  /\ \E i \in 1..Len(mutations), message \in ErrorMessages :
       /\ mutations[i].phase = "sent"
       /\ onError(mutations[i].hook, message)
       /\ mutations' = Without(i)
  /\ NoCall
  /\ ServerUnchanged
  /\ OtherPagesUnchanged

\* papers.listAll reads the store for a fetch that is on its way.
FetchRead ==
  /\ fetch.phase = "sent"
  /\ fetch' = [phase |-> "read", data |-> Some(store)]
  /\ UNCHANGED <<papers, papersIsLoading, stale>>
  /\ NoToast /\ NoCall
  /\ UNCHANGED mutations
  /\ DialogUnchanged /\ DeleteDialogUnchanged /\ ServerUnchanged
  /\ OtherPagesUnchanged

\* The result of the fetch reaches the page: it becomes the query's data.
FetchDeliver ==
  /\ fetch.phase = "read"
  /\ papers' = fetch.data
  /\ papersIsLoading' = FALSE
  /\ stale' = FALSE
  /\ fetch' = IdleFetch
  /\ NoToast /\ NoCall
  /\ UNCHANGED mutations
  /\ DialogUnchanged /\ DeleteDialogUnchanged /\ ServerUnchanged
  /\ OtherPagesUnchanged

\* The fetch fails: the query keeps the data it had and stays stale.
FetchError ==
  /\ fetch.phase \in {"sent", "read"}
  /\ fetch' = IdleFetch
  /\ papersIsLoading' = FALSE
  /\ UNCHANGED <<papers, stale>>
  /\ NoToast /\ NoCall
  /\ UNCHANGED mutations
  /\ DialogUnchanged /\ DeleteDialogUnchanged /\ ServerUnchanged
  /\ OtherPagesUnchanged

\* The query, stale after a fetch that failed, fetches again by itself (a
\* retry, the window regaining focus, the network coming back).
Refetch ==
  /\ fetch.phase = "idle"
  /\ stale
  /\ fetch' = SentFetch
  /\ UNCHANGED <<papers, papersIsLoading, stale>>
  /\ NoToast /\ NoCall
  /\ UNCHANGED mutations
  /\ DialogUnchanged /\ DeleteDialogUnchanged /\ ServerUnchanged
  /\ OtherPagesUnchanged

NextAdmin ==
  \/ OpenCreateDialog
  \/ OpenEditDialog
  \/ CloseDialog
  \/ DialogOpenChange
  \/ ChangeTitle
  \/ ChangeAuthors
  \/ ChangePublished
  \/ HandleSubmit
  \/ SelectForDelete
  \/ CloseDeleteDialog
  \/ HandleDelete
  \/ TogglePublish
  \/ ServerApply
  \/ MutationSuccess
  \/ MutationError
  \/ FetchRead
  \/ FetchDeliver
  \/ FetchError
  \/ Refetch

Init == InitPhotography /\ InitMagazine /\ InitAdmin /\ InitReadTimeIdle

SpecAdmin == Init /\ [][NextAdmin]_vars

\* The two public pages as far as their collections go: the queries of
\* both, which are all that the memos of the collections depend on.
NextCollections ==
  \/ PhotosQuerySuccess
  \/ PhotosQueryError
  \/ EssaysQuerySuccess
  \/ EssaysQueryError

SpecCollections == Init /\ [][NextCollections]_vars

SpecPhotography == Init /\ [][NextPhotography]_vars

\* The form and the publish button with one more mutation in flight: what
\* the user does with the form dialog, the publish button of a row, and the
\* answers of the remote procedures.
InitSerial ==
  /\ InitPhotography /\ InitMagazine /\ InitAdminUpTo(MaxInFlight + 1)
  /\ InitReadTimeIdle

\* estimateReadTime on its own, for each of the texts.
InitEstimate ==
  /\ InitPhotography /\ InitMagazine /\ InitAdmin
  /\ InitReadTime

SpecReadTime == InitEstimate /\ [][NextReadTime]_vars

\* The papers page over a store whose identifiers start at 0.
InitIdentity ==
  /\ InitPhotography /\ InitMagazine /\ InitAdminFrom(0, MaxInFlight)
  /\ InitReadTimeIdle

\* The form dialog, the delete confirmation, the remote procedures and the
\* list query.
NextIdentity ==
  \/ OpenCreateDialog
  \/ OpenEditDialog
  \/ CloseDialog
  \/ ChangeTitle
  \/ ChangeAuthors
  \/ HandleSubmit
  \/ SelectForDelete
  \/ CloseDeleteDialog
  \/ HandleDelete
  \/ ServerApply
  \/ MutationSuccess
  \/ MutationError
  \/ FetchRead
  \/ FetchDeliver

SpecIdentity == InitIdentity /\ [][NextIdentity]_vars

NextSerial ==
  \/ OpenCreateDialog
  \/ OpenEditDialog
  \/ CloseDialog
  \/ DialogOpenChange
  \/ ChangeTitle
  \/ ChangeAuthors
  \/ HandleSubmit
  \/ TogglePublish
  \/ ServerApply
  \/ MutationSuccess
  \/ MutationError
  \/ FetchRead
  \/ FetchDeliver

SpecSerial == InitSerial /\ [][NextSerial]_vars

(***************************************************************************)
(* Properties of the lightbox navigation.                                  *)
(***************************************************************************)
\* The items of a collection.
Items(list) == {list[k] : k \in 1..Len(list)}

\* A selection that is an item of the collection the page exposes.
IsMember(sel) == sel # None /\ Val(sel) \in Items(photos)

\* C1: starting from any selection that is an item of the collection, N
\* navigations in the same direction ("next" N times, or "prev" N times),
\* with the collection of size N unchanged meanwhile, end on the item they
\* started from.
C1_FullCycleReturns ==
  (/\ run.dir \in {"next", "prev"}
   /\ run.count = Len(photos)
   /\ IsMember(run.start))
  => selectedPhoto = run.start

\* A streak of N "next" over a collection of at least three items.
C1_Witness ==
  /\ run.dir = "next"
  /\ Len(photos) >= 3
  /\ run.count = Len(photos)
  /\ IsMember(run.start)
  /\ selectedPhoto = run.start

\* C2: from any selection that is an item of the collection, "next" then
\* "prev" ends on that selection, and so does "prev" then "next".
C2_RoundTripReturns ==
  (/\ trip.path \in {<<"next", "prev">>, <<"prev", "next">>}
   /\ IsMember(trip.start))
  => selectedPhoto = trip.start

\* A "prev" then "next" that started on the first item, so wrapped both ways.
C2_Witness ==
  /\ trip.path = <<"prev", "next">>
  /\ Len(photos) >= 2
  /\ trip.start = Some(photos[1])
  /\ selectedPhoto = trip.start

(***************************************************************************)
(* Properties of the exposed collections.                                  *)
(***************************************************************************)
\* Query data that is present and non-empty.
HasRows(db) == db # None /\ Len(Val(db)) > 0

\* C3: on both pages the exposed collection is the mapped remote collection
\* when the remote result is present and non-empty and the built-in fallback
\* otherwise; it never holds built-in items next to remote ones.
C3_OneSourceOnly ==
  /\ HasRows(dbPhotos) =>
       /\ Len(photos) = Len(Val(dbPhotos))
       /\ \A k \in 1..Len(photos) : photos[k] = MapPhoto(Val(dbPhotos)[k])
       /\ Items(photos) \cap Items(staticPhotos) = {}
  /\ ~HasRows(dbPhotos) => photos = staticPhotos
  /\ HasRows(dbEssays) =>
       /\ Len(essays) = Len(Val(dbEssays))
       /\ \A k \in 1..Len(essays) : essays[k] = MapEssay(Val(dbEssays)[k])
       /\ Items(essays) \cap Items(staticEssays) = {}
  /\ ~HasRows(dbEssays) => essays = staticEssays

\* Photography shows remote photos while Magazine, whose remote result came
\* back empty, shows the built-in essays.
C3_Witness ==
  /\ HasRows(dbPhotos)
  /\ photos # staticPhotos
  /\ dbEssays = Some(<<>>)
  /\ essays = staticEssays

(***************************************************************************)
(* Properties of the papers administration.                                *)
(***************************************************************************)
\* A text that is empty once its whitespace is trimmed off.
Blank(s) == \A k \in 1..Len(s) : IsSpace(s[k])

\* The list query as invalidate leaves it: stale, with a fresh fetch started.
Invalidated == stale /\ fetch = SentFetch

\* C4: a submit whose title or authors is empty after trimming whitespace
\* calls neither the remote create nor the remote update, gives exactly one
\* validation notification, leaves the dialog open and the draft as it was.
C4_InvalidSubmitRejected ==
  [][(HandleSubmit /\ (Blank(formData.title) \/ Blank(formData.authors)))
     => /\ calls' = <<>>
        /\ mutations' = mutations
        /\ Len(toasts') = 1
        /\ toasts'[1] \in {TitleMissing, AuthorsMissing}
        /\ isDialogOpen'
        /\ formData' = formData]_vars

\* A draft with a whitespace-only title was submitted from the open dialog.
C4_Witness ==
  /\ toasts = <<TitleMissing>>
  /\ isDialogOpen
  /\ formData.title = <<" ">>
  /\ calls = <<>>

\* C5: when the remote create or update succeeds, the list query is
\* invalidated, a success notification is given, the dialog is closed, the
\* identifier being edited is null and the draft is the default draft.
C5_SaveSuccessResets ==
  (toasts # <<>> /\ toasts[1].kind = "success"
                 /\ toasts[1].text \in {"paper created", "paper updated"})
  => /\ Len(toasts) = 1
     /\ Invalidated
     /\ ~isDialogOpen
     /\ editingId = None
     /\ formData = defaultFormData

\* The create of this client has just been acknowledged.
C5_Witness ==
  /\ toasts = <<SuccessToast("paper created")>>
  /\ \E c \in created : c.acked
  /\ ~isDialogOpen
  /\ formData = defaultFormData

\* C6: when a remote create, update or delete fails, an error notification
\* carrying the error's message is given and the dialogs, the draft, the
\* identifier being edited and the pending-deletion identifier stay as they
\* were.
C6_FailureLeavesState ==
  [][MutationError
     => /\ Len(toasts') = 1
        /\ toasts'[1].kind = "error"
        /\ \E hook \in {"create", "update", "delete"}, message \in ErrorMessages :
             /\ \E i \in 1..Len(mutations) :
                  mutations[i].hook = hook /\ mutations[i].phase = "sent"
             /\ toasts'[1].text = FailurePrefix(hook) \o message
        /\ UNCHANGED <<isDialogOpen, isDeleteDialogOpen, formData, editingId,
                       deletingId>>]_vars

\* An update submitted from the edit dialog has failed: the dialog is still
\* open on the paper with the draft that was submitted.
C6_Witness ==
  /\ toasts = <<ErrorToast("update failed: timeout")>>
  /\ isDialogOpen
  /\ editingId = Some(1)
  /\ formData # defaultFormData

\* C7: the remote delete is called only from the delete confirmation, while
\* a pending-deletion identifier is set, and with that identifier; selecting
\* a paper for deletion calls nothing.
C7_DeleteOnlyConfirmed ==
  [][/\ (\E k \in 1..Len(calls') : calls'[k].op = "delete")
        => /\ isDeleteDialogOpen
           /\ deletingId # None
           /\ calls' = <<[op |-> "delete", input |-> [id |-> Val(deletingId)]]>>
     /\ SelectForDelete
        => /\ calls' = <<>>
           /\ mutations' = mutations
           /\ isDeleteDialogOpen'
           /\ \E k \in 1..Len(ShownPapers) :
                deletingId' = Some(ShownPapers[k].id)]_vars

\* The confirmation has just called the remote delete for the selected paper.
C7_Witness ==
  /\ calls = <<[op |-> "delete", input |-> [id |-> 1]]>>
  /\ isDeleteDialogOpen
  /\ deletingId = Some(1)

\* C8: when the remote delete succeeds, the list query is invalidated, the
\* delete confirmation is closed and the pending-deletion identifier is null.
C8_DeleteSuccessResets ==
  (toasts # <<>> /\ toasts[1] = SuccessToast("paper deleted"))
  => /\ Invalidated
     /\ ~isDeleteDialogOpen
     /\ deletingId = None

\* The delete has just been acknowledged; the list still shows the paper.
C8_Witness ==
  /\ toasts = <<SuccessToast("paper deleted")>>
  /\ store = <<>>
  /\ papers # None
  /\ Len(Val(papers)) = 1
  /\ ~isDeleteDialogOpen

\* The steps in which the store carries out the i-th request.
AppliedNow(i) ==
  /\ Len(mutations') = Len(mutations)
  /\ mutations[i].phase = "sent"
  /\ mutations'[i].phase = "ok"

\* C9: toggling an unpublished paper leaves the record published with a
\* non-null publication timestamp; toggling a published paper leaves the
\* record unpublished with no publication timestamp.
C9_ToggleSetsAndClearsTimestamp ==
  [][\A i \in 1..Len(mutations) :
       (mutations[i].origin = "toggle" /\ AppliedNow(i))
       => \A k \in 1..Len(store') :
            store'[k].id = mutations[i].input.id
            => IF mutations[i].input.published
               THEN store'[k].published /\ store'[k].publishedAt # Null
               ELSE ~store'[k].published /\ store'[k].publishedAt = Null]_vars

\* The store has carried out the toggle of a published paper: the record is
\* unpublished and still has its publication timestamp.
C9_Witness ==
  /\ \E i \in 1..Len(mutations) :
       /\ mutations[i].origin = "toggle"
       /\ mutations[i].phase = "ok"
       /\ ~mutations[i].input.published
       /\ mutations[i].input.publishedAt = Undefined
  /\ Len(store) = 1
  /\ ~store[1].published
  /\ store[1].publishedAt = Now

\* No remote mutation is in flight and the list query has completed the
\* fetch that followed its last invalidation.
Quiescent == mutations = <<>> /\ fetch.phase = "idle" /\ ~stale

DialogSaves == {i \in 1..Len(mutations) : mutations[i].origin = "dialog"}

WordsIn(s) ==
  Cardinality({k \in 1..Len(s) :
                 ~IsSpace(s[k]) /\ (k = 1 \/ IsSpace(s[k - 1]))})

\* The label for w words: w / 200 rounded up.
LabelFor(w) ==
  ToString(IF w % 200 = 0 THEN w \div 200 ELSE w \div 200 + 1) \o " min read"

\* C12: for every text of at least one word, also one with leading,
\* trailing or repeated whitespace, estimateReadTime returns "<m> min read"
\* where m is the number of whitespace-delimited words divided by 200 and
\* rounded up.
C12_LabelCountsWords ==
  (label # Null /\ WordsIn(body) >= 1) => label = LabelFor(WordsIn(body))

\* 200 words after one leading whitespace character got "2 min read".
C12_Witness ==
  /\ WordsIn(body) = 200
  /\ IsSpace(body[1])
  /\ label = "2 min read"

\* C13: estimateReadTime of the empty text returns "0 min read".
C13_EmptyTextZeroMinutes ==
  (label # Null /\ body = <<>>) => label = "0 min read"

\* C13 as amended: estimateReadTime of the empty text returns "1 min read".
C13_EmptyTextOneMinute ==
  (label # Null /\ body = <<>>) => label = "1 min read"

\* estimateReadTime has returned for the empty text.
C13_Witness == body = <<>> /\ label = "1 min read"

(***************************************************************************)
(* Properties of failures.                                                 *)
(***************************************************************************)
\* C14: every failure of a remote operation of the papers page, the list
\* fetch as well as create, update and delete, gives the user a
\* notification.
C14_EveryFailureNotified ==
  [][(FetchError \/ MutationError)
     => (Len(toasts') >= 1 /\ toasts'[1].kind = "error")]_vars

\* The first fetch of the list has failed: the page has left its loading
\* state with no data and no notification.
C14_Witness ==
  /\ fetch = IdleFetch
  /\ stale
  /\ papers = None
  /\ ~papersIsLoading
  /\ toasts = <<>>
  /\ mutations = <<>>

(***************************************************************************)
(* Properties of the lightbox.                                             *)
(***************************************************************************)
\* The 0-based position of identifier id in a collection, -1 when absent.
PositionOf(list, id) ==
  IF \E k \in 1..Len(list) : list[k].id = id
  THEN (CHOOSE k \in 1..Len(list) :
          /\ list[k].id = id
          /\ \A j \in 1..(k - 1) : list[j].id # id) - 1
  ELSE -1

\* A step of navigatePhoto in direction d.
Navigated(d) == NavigatePhoto /\ lastPhoto' = d

\* C15: with a non-null selection, navigatePhoto finds the index i of the
\* selection's identifier in the collection as it is now and selects the
\* item at (i + 1) mod N for "next" and at (i - 1 + N) mod N for "prev", so
\* "prev" from the first item selects the last and "next" from the last
\* selects the first; with a null selection it changes nothing.
C15_NavigateIndexArithmetic ==
  [][\A d \in {"next", "prev"} :
       Navigated(d) =>
         IF selectedPhoto = None
         THEN UNCHANGED <<selectedPhoto, overflow, photos>>
         ELSE LET N == Len(photos)
                  i == PositionOf(photos, Val(selectedPhoto).id)
              IN /\ d = "next" => selectedPhoto' = Some(photos[((i + 1) % N) + 1])
                 /\ d = "prev" => selectedPhoto' = Some(photos[((i - 1 + N) % N) + 1])
                 /\ (d = "prev" /\ i = 0) => selectedPhoto' = Some(photos[N])
                 /\ (d = "next" /\ i = N - 1) => selectedPhoto' = Some(photos[1])]_vars

\* A "prev" from the first of at least three remote photos has selected the
\* last.
C15_Witness ==
  /\ lastPhoto = "prev"
  /\ dbPhotos # None
  /\ Len(photos) >= 3
  /\ run.count = 1
  /\ run.start = Some(photos[1])
  /\ selectedPhoto = Some(photos[Len(photos)])

\* C16: the page's scroll is suspended exactly while a photo is selected;
\* openLightbox selects the given photo and suspends the scroll,
\* closeLightbox clears the selection and resumes it.
C16_ScrollSuspendedIffSelected ==
  /\ []((overflow = "hidden") <=> (selectedPhoto # None))
  /\ [][OpenLightbox
        => /\ \E k \in 1..Len(photos) : selectedPhoto' = Some(photos[k])
           /\ overflow' = "hidden"]_vars
  /\ [][CloseLightbox => (selectedPhoto' = None /\ overflow' = "auto")]_vars

\* After an open and a navigation a photo is selected and the scroll is
\* suspended.
C16_Witness ==
  /\ lastPhoto \in {"next", "prev"}
  /\ selectedPhoto # None
  /\ overflow = "hidden"

\* The selection's identifier is not in the collection.
SelectionAbsent ==
  /\ selectedPhoto # None
  /\ PositionOf(photos, Val(selectedPhoto).id) = -1

\* C19: when the selection's identifier is not in the collection of size N,
\* navigatePhoto("next") selects the item at index N - 1.
C19_AbsentNextSelectsLast ==
  [][(Navigated("next") /\ SelectionAbsent)
     => selectedPhoto' = Some(photos[Len(photos)])]_vars

\* C19 as amended: when the selection's identifier is not in the
\* collection, navigatePhoto("next") selects the item at index 0.
C19_AbsentNextSelectsFirst ==
  [][(Navigated("next") /\ SelectionAbsent)
     => selectedPhoto' = Some(photos[1])]_vars

\* A "next" from a photo that the refetched collection no longer holds has
\* selected the first of at least two photos.
C19_Witness ==
  /\ lastPhoto = "next"
  /\ run.count = 1
  /\ run.start # None
  /\ PositionOf(photos, Val(run.start).id) = -1
  /\ Len(photos) >= 2
  /\ selectedPhoto = Some(photos[1])

(***************************************************************************)
(* Properties of the form draft.                                           *)
(***************************************************************************)
\* C17: whatever closed the form dialog, while it is closed the draft is
\* the default draft and the identifier being edited is null.
C17_ClosedDialogHasDefaultDraft ==
  ~isDialogOpen => (formData = defaultFormData /\ editingId = None)

\* The edit dialog was closed by its own open-change event: it is closed
\* with the paper's draft and identifier still in place.
C17_Witness ==
  /\ ~isDialogOpen
  /\ editingId = Some(1)
  /\ formData # defaultFormData
  /\ toasts = <<>>

\* C18: an update from the form dialog holds the paper's identifier and
\* exactly the draft fields whose value differs from the record the dialog
\* was opened with; an update from the publish button holds only the
\* identifier, the published flag and the publication timestamp.
C18_UpdateSendsOnlyChanges ==
  [][\A k \in 1..Len(calls') :
       calls'[k].op = "update" =>
         LET input == calls'[k].input
         IN IF isDialogOpen
            THEN \A row \in Items(ShownPapers) :
                   row.id = input.id =>
                     DOMAIN input =
                       {"id"} \cup {f \in DOMAIN formData :
                                      formData[f] # paperDraft(row)[f]}
            ELSE DOMAIN input = {"id", "published", "publishedAt"}]_vars

\* The edit dialog was opened on a paper and saved with nothing changed: the
\* update holds every field of the draft.
C18_Witness ==
  /\ isDialogOpen
  /\ Len(calls) = 1
  /\ calls[1].op = "update"
  /\ DOMAIN calls[1].input = DOMAIN formData \cup {"id", "publishedAt"}
  /\ \E row \in Items(ShownPapers) :
       row.id = calls[1].input.id /\ formData = paperDraft(row)

\* An update issued by the publish button is in flight.
ToggleInFlight(i) == i \in 1..Len(mutations) /\ mutations[i].origin = "toggle"

\* C20: when an update issued by the publish button completes, with success
\* or with failure, while the create/edit dialog is open, the dialog stays
\* open and the draft and the editing identifier are unchanged.
C20_ToggleCompletionKeepsSession ==
  [][\A i \in 1..Len(mutations) :
       (/\ ToggleInFlight(i)
        /\ isDialogOpen
        /\ MutationSuccess \/ MutationError
        /\ mutations' = Without(i))
       => (isDialogOpen' /\ formData' = formData /\ editingId' = editingId)]_vars

\* The dialog was opened and a draft typed while the publish button's update
\* was in flight, and the update has been answered.
C20_Witness ==
  /\ \E i \in 1..Len(mutations) : ToggleInFlight(i) /\ mutations[i].phase = "ok"
  /\ isDialogOpen
  /\ formData # defaultFormData
  /\ formData.title \in TitleInputs

\* The one remote call a step issues is op, for the paper id.
CallsFor(op, id) ==
  /\ Len(calls') = 1
  /\ calls'[1].op = op
  /\ calls'[1].input.id = id

\* C21: for every identifier the store assigns, 0 included, a valid submit
\* in a dialog opened by openEditDialog for paper p calls update with id p
\* and not create, a confirmed delete of paper p calls delete with id p, and
\* a valid submit in a dialog opened by openCreateDialog calls create and not
\* update.
C21_CallsCarryThePaperId ==
  [][/\ (HandleSubmit /\ ValidDraft(formData) /\ editingId # None)
          => CallsFor("update", Val(editingId))
     /\ (HandleSubmit /\ ValidDraft(formData) /\ editingId = None)
          => (Len(calls') = 1 /\ calls'[1].op = "create")
     /\ (HandleDelete /\ deletingId # None)
          => CallsFor("delete", Val(deletingId))]_vars

\* The edit dialog of paper 0 was saved and the call that went out is create.
C21_Witness ==
  /\ isDialogOpen
  /\ editingId = Some(0)
  /\ Len(calls) = 1
  /\ calls[1].op = "create"

(***************************************************************************)
(* Properties of the selection after a navigation.                         *)
(***************************************************************************)
\* C22: the collection the photography page exposes is never empty, and
\* whatever Open, Close, Navigate and refetches did before, right after a
\* Navigate with a non-null selection the new selection is an item of the
\* current collection (never undefined).
C22_NavigateSelectsAMember ==
  /\ [](Len(photos) >= 1)
  /\ [][(NavigatePhoto /\ selectedPhoto # None)
        => (/\ selectedPhoto' # None
            /\ Val(selectedPhoto') \in Items(photos'))]_vars

\* A "prev" from a photo that the refetched collection of one photo no longer
\* holds has selected that one photo.
C22_Witness ==
  /\ lastPhoto = "prev"
  /\ run.count = 1
  /\ run.start # None
  /\ PositionOf(photos, Val(run.start).id) = -1
  /\ Len(photos) = 1
  /\ IsMember(selectedPhoto)

====
